---- MODULE Spec2Model ----
(***************************************************************************)
(* The FlowPaste application store (src/src/stores/app.ts) and the event   *)
(* listeners the floating panel registers for it                           *)
(* (src/src/components/FloatingPanel.vue), as a state machine.             *)
(*                                                                         *)
(* Every store function is a record transformer named as in the source.    *)
(* An async function is cut at each await: the part before the await runs  *)
(* in the action that calls the function and leaves a pending backend      *)
(* command; the part after the await runs in the action that settles that  *)
(* command (the *_resolved / *_rejected transformers).                     *)
(***************************************************************************)
EXTENDS Integers, Sequences, FiniteSets, Bags, TLC

\* ------------------------------------------------------------------ bounds
\* The number of steps (calls, settlements, events) of the runs explored.
MaxSteps == 7

\* ------------------------------------------------------------------ values
\* A nullable value: null is the empty tuple, a value is a one-tuple.
None == <<>>
Some(x) == <<x>>

\* Clipboard contents read_clipboard may answer with.
ClipTexts == {"", "hi", "a@b.c"}

\* Prompts the caller passes to processWithAI.
Prompts == {"p"}

\* Rule ids the caller passes to processWithRule, and apply_rule's answers.
RuleIds == {"trim"}
RuleResults == {"r"}

\* Text carried by ai:chunk / ai:done payloads.
Contents == {"a", "b"}
DoneContents == {"ab"}

\* code / message of an ai:error payload, and the value a rejected command
\* is rejected with.
ErrorCodes == {"E1"}
ErrorMessages == {"m"}
Rejections == {"x"}

\* The configuration of the settings form before any is loaded; its texts are
\* sequences of characters.
DefaultHotkey == <<"C", "t", "r", "l", "+", "S", "h", "i", "f", "t", "+", "V">>
DefaultOllamaBaseUrl ==
  <<"h", "t", "t", "p", ":", "/", "/", "l", "o", "c", "a", "l", "h", "o", "s", "t", ":", "1", "1", "4", "3", "4">>
DefaultOpenaiBaseUrl ==
  <<"h", "t", "t", "p", "s", ":", "/", "/", "a", "p", "i", ".", "o", "p", "e", "n", "a", "i", ".", "c", "o", "m", "/", "v", "1">>
DefaultModelName == <<"l", "l", "a", "m", "a", "3", ".", "2">>
DefaultConfig ==
  [hotkey |-> DefaultHotkey, aiProvider |-> "Ollama",
   ollamaBaseUrl |-> DefaultOllamaBaseUrl,
   openaiBaseUrl |-> DefaultOpenaiBaseUrl,
   modelName |-> DefaultModelName, theme |-> "system"]

\* The configurations get_config answers with and saveConfig is given.
Configs == {DefaultConfig, [DefaultConfig EXCEPT !.aiProvider = "OpenAI"]}
NoConfig ==
  [hotkey |-> <<>>, aiProvider |-> "", ollamaBaseUrl |-> <<>>,
   openaiBaseUrl |-> <<>>, modelName |-> <<>>, theme |-> ""]

\* ------------------------------------------------------- Privacy Shield
\* A text is a sequence of characters.
Upper ==
  {"A", "B", "C", "D", "E", "F", "G", "H", "I", "J", "K", "L", "M",
   "N", "O", "P", "Q", "R", "S", "T", "U", "V", "W", "X", "Y", "Z"}
Digit == <<"0", "1", "2", "3", "4", "5", "6", "7", "8", "9">>
Digits == {Digit[i] : i \in DOMAIN Digit}

\* The categories (PIIType; the NationalId category is IDCard and the
\* IPAddress category is IP), and their priority in overlap resolution
\* (highest first: APIKey > BankCard > IDCard > Phone > Email > IP).
Categories == {"APIKey", "BankCard", "IDCard", "Phone", "Email", "IP"}

\* Priority with Email ranked above Phone.
Priority_emailAbovePhone(category) ==
  CASE category = "APIKey" -> 6
    [] category = "BankCard" -> 5
    [] category = "IDCard" -> 4
    [] category = "Email" -> 3
    [] category = "Phone" -> 2
    [] category = "IP" -> 1

Priority(category) ==
  CASE category = "APIKey" -> 6
    [] category = "BankCard" -> 5
    [] category = "IDCard" -> 4
    [] category = "Phone" -> 3
    [] category = "Email" -> 2
    [] category = "IP" -> 1

\* The upper-case category name of the placeholder form.
CategoryName(category) ==
  CASE category = "APIKey" -> <<"A", "P", "I", "K", "E", "Y">>
    [] category = "BankCard" -> <<"B", "A", "N", "K", "C", "A", "R", "D">>
    [] category = "IDCard" -> <<"I", "D", "C", "A", "R", "D">>
    [] category = "Phone" -> <<"P", "H", "O", "N", "E">>
    [] category = "Email" -> <<"E", "M", "A", "I", "L">>
    [] category = "IP" -> <<"I", "P">>

\* The sequence number without the padding.
SequenceNumber_unpadded(n) ==
  IF n < 10
    THEN <<Digit[n + 1]>>
    ELSE <<Digit[(n \div 10) + 1], Digit[(n % 10) + 1]>>

\* NN: the sequence number, zero-padded to two digits.
SequenceNumber(n) ==
  IF n < 10
    THEN <<"0", Digit[n + 1]>>
    ELSE <<Digit[(n \div 10) + 1], Digit[(n % 10) + 1]>>

\* The placeholder {{FP_<CATEGORY>_<NN>}}.
Placeholder(category, n) ==
  <<"{", "{", "F", "P", "_">> \o CategoryName(category) \o <<"_">>
    \o SequenceNumber(n) \o <<"}", "}">>

\* Two half-open spans intersect.
Intersects(a, b) == a.start < b.end /\ b.start < a.end

\* Candidate a is preferred to candidate b: the higher priority, then the
\* earlier start, then the longer span.
Preferred(a, b) ==
  \/ Priority(a.piiType) > Priority(b.piiType)
  \/ /\ Priority(a.piiType) = Priority(b.piiType)
     /\ \/ a.start < b.start
        \/ a.start = b.start /\ a.end > b.end

\* The number a digit character stands for.
digitValue(char) == CHOOSE n \in 0..9 : Digit[n + 1] = char

\* The mod-10 double-and-sum of the k-th digit from the right and those to
\* its left: every second digit is doubled, and 9 taken off a result over 9.
RECURSIVE luhnSum(_, _)
luhnSum(value, k) ==
  IF k > Len(value)
    THEN 0
    ELSE LET d == digitValue(value[Len(value) - k + 1])
             doubled == IF k % 2 = 0 THEN 2 * d ELSE d
         IN  (IF doubled > 9 THEN doubled - 9 ELSE doubled) + luhnSum(value, k + 1)

\* The checksum validation of a BankCard candidate.
luhn(value) ==
  /\ value # <<>>
  /\ \A i \in DOMAIN value : value[i] \in Digits
  /\ luhnSum(value, 1) % 10 = 0

\* The Pattern Registry without the checksum validation.
accepted_unchecked(candidates) == candidates

\* The candidates the Pattern Registry accepts as real matches: a BankCard
\* candidate that fails the checksum is discarded.
accepted(candidates) ==
  {c \in candidates : c.piiType = "BankCard" => luhn(c.value)}

\* Overlap resolution: the candidates taken in order of preference, each kept
\* unless it intersects one kept before.
RECURSIVE resolve(_, _)
resolve(candidates, kept) ==
  IF candidates = {}
    THEN kept
    ELSE LET c == CHOOSE c \in candidates :
                    \A d \in candidates \ {c} : Preferred(c, d)
         IN  resolve(candidates \ {c},
                     IF \E k \in kept : Intersects(k, c) THEN kept ELSE kept \cup {c})

\* The spans in ascending order of start.
RECURSIVE sortByStart(_)
sortByStart(spans) ==
  IF spans = {}
    THEN <<>>
    ELSE LET first == CHOOSE c \in spans : \A d \in spans : c.start <= d.start
         IN  <<first>> \o sortByStart(spans \ {first})

\* scan that keeps every candidate.
scan_keepsAll(candidates) ==
  LET items == sortByStart(candidates)
  IN  [hasPii |-> items # <<>>, items |-> items]

\* scan: the candidates of the Pattern Registry resolved and sorted.
scan(candidates) ==
  LET items == sortByStart(resolve(accepted(candidates), {}))
  IN  [hasPii |-> items # <<>>, items |-> items]

\* mask from the k-th match on: pos is the offset of the source text read so
\* far, out the masked text built so far.
RECURSIVE maskItems(_, _, _, _, _, _)
maskItems(text, items, k, pos, out, mapping) ==
  IF k > Len(items)
    THEN [masked |-> out \o SubSeq(text, pos + 1, Len(text)), mapping |-> mapping]
    ELSE LET item == items[k]
             placeholder == Placeholder(item.piiType, k)
         IN  maskItems(text, items, k + 1, item.end,
                       out \o SubSeq(text, pos + 1, item.start) \o placeholder,
                       mapping @@ (placeholder :> item.value))

mask(text, scanResult) ==
  IF ~scanResult.hasPii
    THEN [masked |-> text, mapping |-> <<>>]
    ELSE maskItems(text, scanResult.items, 1, 0, <<>>, <<>>)

\* The length of the run of characters of a class that starts at i.
RECURSIVE runLength(_, _, _)
runLength(text, i, class) ==
  IF i <= Len(text) /\ text[i] \in class
    THEN 1 + runLength(text, i + 1, class)
    ELSE 0

startsWith(text, i, word) ==
  /\ i + Len(word) - 1 <= Len(text)
  /\ SubSeq(text, i, i + Len(word) - 1) = word

\* The length of the placeholder-shaped substring that starts at i, 0 if
\* there is none: {{FP_ , upper-case letters, _ , two or more digits, }}.
placeholderLength(text, i) ==
  IF ~startsWith(text, i, <<"{", "{", "F", "P", "_">>)
    THEN 0
    ELSE LET c == runLength(text, i + 5, Upper)
             d == runLength(text, i + 6 + c, Digits)
         IN  IF /\ c > 0
                /\ startsWith(text, i + 5 + c, <<"_">>)
                /\ d >= 2
                /\ startsWith(text, i + 6 + c + d, <<"}", "}">>)
               THEN 8 + c + d
               ELSE 0

\* What restore that drops unknown placeholders puts in place of one.
replacement_dropsUnknown(placeholder, mapping) ==
  IF placeholder \in DOMAIN mapping THEN mapping[placeholder] ELSE <<>>

\* What restore that marks unknown placeholders puts in place of one.
replacement_marksUnknown(placeholder, mapping) ==
  IF placeholder \in DOMAIN mapping
    THEN mapping[placeholder]
    ELSE <<"[">> \o placeholder \o <<"]">>

\* What restore puts in place of a placeholder: its original value, or the
\* placeholder itself when the mapping does not have it.
replacement(placeholder, mapping) ==
  IF placeholder \in DOMAIN mapping THEN mapping[placeholder] ELSE placeholder

\* restore from position i on, in one pass from left to right.
RECURSIVE restoreFrom(_, _, _, _)
restoreFrom(text, mapping, i, out) ==
  IF i > Len(text)
    THEN out
    ELSE LET n == placeholderLength(text, i)
         IN  IF n > 0
               THEN restoreFrom(text, mapping, i + n,
                                out \o replacement(SubSeq(text, i, i + n - 1), mapping))
               ELSE restoreFrom(text, mapping, i + 1, out \o <<text[i]>>)

restore(text, mapping) == restoreFrom(text, mapping, 1, <<>>)

\* ------------------------------------------------------------- backend
\* The PII items scan_pii reports for a text.
ScanPii(text) ==
  scan(IF text = "a@b.c"
         THEN {[piiType |-> "Email", value |-> "a@b.c", start |-> 0, end |-> 5]}
         ELSE {})

\* The event names the floating panel listens to (onMounted).
Listeners == {"ai:chunk", "ai:error"}

\* A pending backend command (an invoke whose promise is not settled).
Task(cmd, rid, text, cfg) == [cmd |-> cmd, rid |-> rid, text |-> text, config |-> cfg]

\* An event payload; the fields a kind of event does not carry are empty.
ChunkEvent(rid, content, done) ==
  [requestId |-> rid, content |-> content, done |-> done, code |-> "", message |-> ""]
ErrorEvent(rid, code, message) ==
  [requestId |-> rid, content |-> "", done |-> FALSE, code |-> code, message |-> message]
NoEvent == [requestId |-> 0, content |-> "", done |-> FALSE, code |-> "", message |-> ""]

VARIABLES
  \* the store's refs
  isVisible, panelMode, clipboardContent, processedContent, streamingContent,
  actionChips, selectedChipIndex, currentRequestId, privacyStatus,
  maskedMapping, config, errorMessage,
  \* the backend commands invoked and not yet settled
  pending,
  \* the number of request ids crypto.randomUUID has produced so far
  idsUsed,
  \* the send_ai_request and cancel_ai_request invocations made so far
  sendLog, cancelLog,
  \* backend: the requests whose event stream has ended
  ended,
  \* history: per request id, the text of the delta events delivered for it
  deltaLog,
  \* history: the request ids a terminal outcome was applied to the store for
  terminated,
  \* history: the last operation, its event and currentRequestId before it
  last,
  \* the number of steps taken
  steps,
  \* the floating panel: whether its window is shown, and its refs
  windowShown, isDragging, showSettings,
  \* the refs of the settings panel
  settings,
  \* the Privacy Shield at work on one text: the text, the candidate spans of
  \* the Pattern Registry, the scan result, the masked text and mapping, the
  \* text given to restore and what restore made of it, once and twice
  shield,
  \* a provider at work on one completion: the frames of the transport not
  \* yet read, the events emitted, and whether complete has returned
  completion,
  \* the action chips at work on one keydown event: the chips, the key and
  \* the target of the event, and the chips emitted with select
  keydown

storeVars == <<isVisible, panelMode, clipboardContent, processedContent,
               streamingContent, actionChips, selectedChipIndex,
               currentRequestId, privacyStatus, maskedMapping, config,
               errorMessage, pending, idsUsed, sendLog, cancelLog>>
panelVars == <<windowShown, isDragging, showSettings>>
appVars == <<storeVars, ended, deltaLog, terminated, last, steps, panelVars,
            settings>>
vars == <<appVars, shield, completion, keydown>>

ReqIds == 1..MaxSteps

\* The store as one record.
S ==
  [isVisible |-> isVisible, panelMode |-> panelMode,
   clipboardContent |-> clipboardContent, processedContent |-> processedContent,
   streamingContent |-> streamingContent, actionChips |-> actionChips,
   selectedChipIndex |-> selectedChipIndex, currentRequestId |-> currentRequestId,
   privacyStatus |-> privacyStatus, maskedMapping |-> maskedMapping,
   config |-> config, errorMessage |-> errorMessage,
   pending |-> pending, idsUsed |-> idsUsed,
   sendLog |-> sendLog, cancelLog |-> cancelLog]

\* The store after a handler ran.
Commit(s) ==
  /\ isVisible' = s.isVisible
  /\ panelMode' = s.panelMode
  /\ clipboardContent' = s.clipboardContent
  /\ processedContent' = s.processedContent
  /\ streamingContent' = s.streamingContent
  /\ actionChips' = s.actionChips
  /\ selectedChipIndex' = s.selectedChipIndex
  /\ currentRequestId' = s.currentRequestId
  /\ privacyStatus' = s.privacyStatus
  /\ maskedMapping' = s.maskedMapping
  /\ config' = s.config
  /\ errorMessage' = s.errorMessage
  /\ pending' = s.pending
  /\ idsUsed' = s.idsUsed
  /\ sendLog' = s.sendLog
  /\ cancelLog' = s.cancelLog

\* ------------------------------------------------------------------ store
clipboardText(s) ==
  IF s.clipboardContent = None THEN "" ELSE s.clipboardContent[1].text

isProcessing(s) == s.panelMode = "processing"

invokeCommand(s, task) == [s EXCEPT !.pending = @ (+) SetToBag({task})]

settle(s, task) == [s EXCEPT !.pending = @ (-) SetToBag({task})]

startProcessing(s) ==
  [s EXCEPT !.panelMode = "processing",
            !.streamingContent = "",
            !.processedContent = "",
            !.errorMessage = None]

appendStreamContent(s, content) ==
  [s EXCEPT !.streamingContent = @ \o content]

\* finishProcessing that leaves the streamed text in place.
finishProcessing_keepsStream(s, result) ==
  [s EXCEPT !.processedContent = result,
            !.panelMode = "result",
            !.currentRequestId = None]

finishProcessing(s, result) ==
  [s EXCEPT !.processedContent = result,
            !.panelMode = "result",
            !.streamingContent = "",
            !.currentRequestId = None]

\* setError that leaves the request current.
setError_keepsRequest(s, message) ==
  [s EXCEPT !.errorMessage = Some(message),
            !.panelMode = "preview"]

setError(s, message) ==
  [s EXCEPT !.errorMessage = Some(message),
            !.panelMode = "preview",
            !.currentRequestId = None]

\* reset that leaves the error message.
reset_keepsError(s) ==
  [s EXCEPT !.clipboardContent = None,
            !.processedContent = "",
            !.streamingContent = "",
            !.actionChips = <<>>,
            !.selectedChipIndex = 0,
            !.privacyStatus = [type |-> "local"],
            !.maskedMapping = <<>>,
            !.panelMode = "idle",
            !.currentRequestId = None]

reset(s) ==
  [s EXCEPT !.clipboardContent = None,
            !.processedContent = "",
            !.streamingContent = "",
            !.actionChips = <<>>,
            !.selectedChipIndex = 0,
            !.privacyStatus = [type |-> "local"],
            !.maskedMapping = <<>>,
            !.errorMessage = None,
            !.panelMode = "idle",
            !.currentRequestId = None]

\* cancelAI up to its await: the cancel command is invoked for the request
\* that is current now.
cancelAI(s) ==
  IF s.currentRequestId # None
    THEN [invokeCommand(s, Task("cancel_ai_request", s.currentRequestId[1], "", NoConfig))
            EXCEPT !.cancelLog = @ \cup {s.currentRequestId[1]}]
    ELSE s

\* cancelAI that reports the cancellation as a failure.
cancelAI_settled_setsError(s) ==
  setError(s, "Failed to cancel")

\* cancelAI after its await, whether the command returned or threw.
cancelAI_settled(s) ==
  [s EXCEPT !.currentRequestId = None, !.panelMode = "preview"]

hidePanel(s) ==
  [(IF s.currentRequestId # None THEN cancelAI(s) ELSE s)
     EXCEPT !.isVisible = FALSE, !.panelMode = "idle", !.errorMessage = None]

scanPrivacy(s, text) == invokeCommand(s, Task("scan_pii", 0, text, NoConfig))

\* scanPrivacy that does not look at hasPii.
scanPrivacy_resolved_alwaysMasked(s, result) ==
  [s EXCEPT !.privacyStatus =
     [type |-> "cloud-masked", maskedCount |-> Len(result.items)]]

scanPrivacy_resolved(s, result) ==
  IF result.hasPii
    THEN [s EXCEPT !.privacyStatus =
            [type |-> "cloud-masked", maskedCount |-> Len(result.items)]]
    ELSE [s EXCEPT !.privacyStatus = [type |-> "cloud-safe"]]

scanPrivacy_rejected(s) == [s EXCEPT !.privacyStatus = [type |-> "local"]]

refreshClipboard(s) == invokeCommand(s, Task("read_clipboard", 0, "", NoConfig))

refreshClipboard_resolved(s, content) ==
  LET t == [s EXCEPT !.clipboardContent = Some(content)]
  IN  IF content.text # ""
        THEN scanPrivacy([t EXCEPT !.panelMode = "preview"], content.text)
        ELSE t

refreshClipboard_rejected(s, e) == setError(s, "Failed to read clipboard: " \o e)

showPanel(s) ==
  refreshClipboard([s EXCEPT !.isVisible = TRUE, !.panelMode = "preview"])

processWithRule(s, ruleId) ==
  IF clipboardText(s) = ""
    THEN s
    ELSE invokeCommand(startProcessing(s), Task("apply_rule", 0, ruleId, NoConfig))

processWithRule_resolved(s, result) == finishProcessing(s, result)

processWithRule_rejected(s, e) == setError(s, "Rule processing failed: " \o e)

\* The provider of fullConfig.
provider(s) ==
  IF s.config = None THEN "Ollama" ELSE s.config[1].aiProvider

\* processWithAI from the computation of usePrivacyShield to the await of
\* send_ai_request.
processWithAI_send(s, requestId, prompt) ==
  LET usePrivacyShield == s.privacyStatus.type = "cloud-masked"
      fullPrompt == prompt \o "\n\nContent:\n" \o clipboardText(s)
  IN  [invokeCommand(s, Task("send_ai_request", requestId, "", NoConfig))
         EXCEPT !.sendLog = @ \cup {[prompt |-> fullPrompt,
                                     requestId |-> requestId,
                                     usePrivacyShield |-> usePrivacyShield]}]

\* The panel passes no aiConfig, so fullConfig is the stored configuration
\* with the defaults of the source.
\* processWithAI without the test of the clipboard text.
processWithAI_anyClipboard(s, prompt) ==
  LET requestId == s.idsUsed + 1
      t == [startProcessing(s) EXCEPT !.idsUsed = requestId,
                                      !.currentRequestId = Some(requestId)]
  IN  IF provider(t) = "OpenAI"
        THEN invokeCommand(t, Task("get_api_key", requestId, prompt, NoConfig))
        ELSE processWithAI_send(t, requestId, prompt)

processWithAI(s, prompt) ==
  IF clipboardText(s) = ""
    THEN s
    ELSE LET requestId == s.idsUsed + 1
             t == [startProcessing(s) EXCEPT !.idsUsed = requestId,
                                             !.currentRequestId = Some(requestId)]
         IN  IF provider(t) = "OpenAI"
               THEN invokeCommand(t, Task("get_api_key", requestId, prompt, NoConfig))
               ELSE processWithAI_send(t, requestId, prompt)

processWithAI_rejected(s, e) ==
  [setError(s, "AI request failed: " \o e) EXCEPT !.currentRequestId = None]

contentToPaste(s) ==
  IF s.processedContent # "" THEN s.processedContent ELSE clipboardText(s)

confirmPaste(s) ==
  IF contentToPaste(s) = ""
    THEN s
    ELSE invokeCommand(s, Task("write_clipboard", 0, contentToPaste(s), NoConfig))

confirmPaste_resolved(s) == reset(hidePanel(s))

confirmPaste_rejected(s, e) == setError(s, "Failed to paste: " \o e)

loadConfig(s) == invokeCommand(s, Task("get_config", 0, "", NoConfig))

loadConfig_resolved(s, cfg) == [s EXCEPT !.config = Some(cfg)]

saveConfig(s, newConfig) == invokeCommand(s, Task("set_config", 0, "", newConfig))

saveConfig_resolved(s, newConfig) == [s EXCEPT !.config = Some(newConfig)]

saveConfig_rejected(s, e) == setError(s, "Failed to save config: " \o e)

\* handleAIChunk without the request id check.
handleAIChunk_noIdCheck(s, payload) ==
  IF payload.done
    THEN finishProcessing(s, payload.content)
    ELSE appendStreamContent(s, payload.content)

handleAIChunk(s, payload) ==
  IF Some(payload.requestId) # s.currentRequestId
    THEN s
    ELSE IF payload.done
           THEN finishProcessing(s, payload.content)
           ELSE appendStreamContent(s, payload.content)

\* handleAIError that sends the failed request again.
handleAIError_retries(s, payload) ==
  IF Some(payload.requestId) # s.currentRequestId
    THEN s
    ELSE processWithAI_send(setError(s, "AI Error [" \o payload.code \o "]: " \o payload.message),
                            payload.requestId, "retry")

handleAIError(s, payload) ==
  IF Some(payload.requestId) # s.currentRequestId
    THEN s
    ELSE setError(s, "AI Error [" \o payload.code \o "]: " \o payload.message)

\* ------------------------------------------------------- settings panel
\* String.prototype.trim on a sequence of characters.
RECURSIVE trimStart(_)
trimStart(text) ==
  IF text # <<>> /\ Head(text) = " " THEN trimStart(Tail(text)) ELSE text

RECURSIVE trimEnd(_)
trimEnd(text) ==
  IF text # <<>> /\ text[Len(text)] = " "
    THEN trimEnd(SubSeq(text, 1, Len(text) - 1))
    ELSE text

trim(text) == trimEnd(trimStart(text))

Https == <<"h", "t", "t", "p", "s", ":", "/", "/">>

\* The string of a sequence of characters, as a command is given it.
RECURSIVE join(_)
join(text) == IF text = <<>> THEN "" ELSE Head(text) \o join(Tail(text))

\* The refs of a settings panel just set up; savedAsConfig tells that the
\* object of formData is the one store.config holds, and closes counts the
\* close events emitted.
NoSettings ==
  [formData |-> DefaultConfig, apiKey |-> <<>>, availableModels |-> <<>>,
   isTesting |-> FALSE, testResult |-> None, isSaving |-> FALSE,
   errors |-> <<>>, savedAsConfig |-> FALSE, closes |-> 0]

currentBaseUrl(st) ==
  IF st.formData.aiProvider = "OpenAI"
    THEN st.formData.openaiBaseUrl
    ELSE st.formData.ollamaBaseUrl

requiresApiKey(st) == st.formData.aiProvider = "OpenAI"

\* One entry of errors if the condition holds, none otherwise.
errorIf(condition, key, message) ==
  IF condition THEN key :> message ELSE <<>>

\* The errors validateForm finds, with the https test left out.
formErrors_anyScheme(st) ==
  errorIf(trim(st.formData.hotkey) = <<>>, "hotkey", "empty")
    @@ errorIf(trim(currentBaseUrl(st)) = <<>>, "baseUrl", "empty")
    @@ errorIf(requiresApiKey(st) /\ trim(st.apiKey) = <<>>, "apiKey", "required")
    @@ errorIf(trim(st.formData.modelName) = <<>>, "model", "empty")

\* The errors validateForm finds (the messages are abbreviated).
formErrors(st) ==
  errorIf(trim(st.formData.hotkey) = <<>>, "hotkey", "empty")
    @@ errorIf(trim(currentBaseUrl(st)) = <<>>, "baseUrl", "empty")
    @@ errorIf(/\ trim(currentBaseUrl(st)) # <<>>
               /\ st.formData.aiProvider = "OpenAI"
               /\ ~startsWith(currentBaseUrl(st), 1, Https),
               "baseUrl", "https")
    @@ errorIf(requiresApiKey(st) /\ trim(st.apiKey) = <<>>, "apiKey", "required")
    @@ errorIf(trim(st.formData.modelName) = <<>>, "model", "empty")

\* The settings after validateForm, and what it returns.
validateForm(st) == [st EXCEPT !.errors = formErrors(st)]

isValid(st) == DOMAIN st.errors = {}

\* The store, the settings and showSettings together.
Panel(s, st, open) == [store |-> s, settings |-> st, showSettings |-> open]

\* An assignment to a field of formData.value: store.config shows it too
\* when it holds the same object.
setFormData(p, field, value) ==
  LET formData == [p.settings.formData EXCEPT ![field] = value]
  IN  [p EXCEPT !.settings.formData = formData,
                !.store.config = IF p.settings.savedAsConfig
                                   THEN Some(formData) ELSE @]

\* saveConfig after set_config resolved: config.value = newConfig, the
\* object of formData that handleSave passed.
handleSave_configAssigned(p) ==
  [p EXCEPT !.store = saveConfig_resolved(@, p.settings.formData),
            !.settings.savedAsConfig = TRUE]

\* emit('close'): handleSettingsClose of the floating panel runs.
emitClose(p) ==
  [p EXCEPT !.settings.closes = @ + 1, !.showSettings = FALSE]

\* The catch and the finally of handleSave.
handleSave_rejected(p, e) ==
  [p EXCEPT !.settings.errors = ("save" :> e) @@ @,
            !.settings.isSaving = FALSE]

\* handleSave after the hotkey is registered, or was not to be.
handleSave_hotkeyRegistered(p) ==
  [emitClose(p) EXCEPT !.settings.isSaving = FALSE]

\* handleSave after the API key is saved, or was not to be.
handleSave_apiKeySaved(p) ==
  IF /\ p.store.config # None
     /\ p.settings.formData.hotkey # p.store.config[1].hotkey
    THEN [p EXCEPT !.store = invokeCommand(@, Task("register_hotkey", 0,
                                                   join(p.settings.formData.hotkey),
                                                   NoConfig))]
    ELSE handleSave_hotkeyRegistered(p)

\* handleSave after store.saveConfig returned.
handleSave_configSaved(p) ==
  IF requiresApiKey(p.settings) /\ trim(p.settings.apiKey) # <<>>
    THEN [p EXCEPT !.store = invokeCommand(@, Task("set_api_key", 0,
                                                   join(p.settings.apiKey),
                                                   NoConfig))]
    ELSE handleSave_apiKeySaved(p)

handleSave(p) ==
  LET v == validateForm(p.settings)
  IN  IF ~isValid(v)
        THEN [p EXCEPT !.settings = v]
        ELSE [p EXCEPT !.settings = [v EXCEPT !.isSaving = TRUE],
                       !.store = saveConfig(@, v.formData)]

\* loadOllamaModels: the caller is kept with the command.
loadOllamaModels(p, caller) ==
  [p EXCEPT !.store = invokeCommand(@, Task("list_local_models", 0, caller, NoConfig))]

loadOllamaModels_resolved(p, models) ==
  LET q == [p EXCEPT !.settings.availableModels = models]
  IN  IF Len(models) > 0 /\ q.settings.formData.modelName = <<>>
        THEN setFormData(q, "modelName", models[1])
        ELSE q

\* The finally of testConnection.
testConnection_finally(p) == [p EXCEPT !.settings.isTesting = FALSE]

testConnection_resolved(p, healthy) ==
  LET q == [p EXCEPT !.settings.testResult = Some([success |-> healthy])]
  IN  IF healthy
        THEN loadOllamaModels(q, "testConnection")
        ELSE testConnection_finally(q)

testConnection_rejected(p) ==
  testConnection_finally([p EXCEPT !.settings.testResult = Some([success |-> FALSE])])

testConnection(p) ==
  LET v == validateForm(p.settings)
      testing == [v EXCEPT !.isTesting = TRUE, !.testResult = None]
  IN  IF ~isValid(v)
        THEN [p EXCEPT !.settings = v]
        ELSE IF v.formData.aiProvider = "Ollama"
               THEN [p EXCEPT !.settings = testing,
                              !.store = invokeCommand(@,
                                 Task("check_ollama_health", 0,
                                      join(v.formData.ollamaBaseUrl), NoConfig))]
               ELSE testConnection_finally(
                      [p EXCEPT !.settings =
                         [testing EXCEPT !.testResult = Some([success |-> TRUE])]])

handleCancel(p) == emitClose(p)

\* onMounted of the settings panel, from its load of the models on.
onMounted_apiKeyLoaded(p) ==
  IF p.settings.formData.aiProvider = "Ollama"
    THEN loadOllamaModels(p, "onMounted")
    ELSE p

\* onMounted of a settings panel set up anew.
onMounted(p) ==
  LET st == [NoSettings EXCEPT
               !.formData = IF p.store.config # None THEN p.store.config[1] ELSE @,
               !.closes = p.settings.closes]
      q == [p EXCEPT !.settings = st]
  IN  IF requiresApiKey(st)
        THEN [q EXCEPT !.store = invokeCommand(@, Task("get_api_key", 0, "onMounted", NoConfig))]
        ELSE onMounted_apiKeyLoaded(q)

handleProviderChange(p) ==
  LET q == [p EXCEPT !.settings.testResult = None]
  IN  IF q.settings.formData.aiProvider = "Ollama"
        THEN loadOllamaModels(q, "handleProviderChange")
        ELSE q

\* ------------------------------------------------------------------ steps
Last(op, rid, ev) == [op |-> op, rid |-> rid, ev |-> ev, cur |-> currentRequestId]

\* One step of the panel: the store after it, and the step recorded.
PanelStep(op, s) ==
  /\ steps < MaxSteps
  /\ steps' = steps + 1
  /\ Commit(s)
  /\ last' = Last(op, 0, NoEvent)
  /\ UNCHANGED <<ended, deltaLog, terminated, settings, shield, completion,
                 keydown>>

\* One step of the store, of the backend or of a continuation: the store
\* after it, and the step recorded.
Step(op, rid, ev, s) ==
  /\ steps < MaxSteps
  /\ steps' = steps + 1
  /\ Commit(s)
  /\ last' = Last(op, rid, ev)
  /\ UNCHANGED <<panelVars, settings, shield, completion, keydown>>

\* hideWindow of the floating panel.
hideWindow ==
  /\ windowShown' = FALSE
  /\ UNCHANGED <<isDragging, showSettings>>

\* A call of a store function by the panel.
Call(op, s) ==
  /\ Step(op, 0, NoEvent, s)
  /\ UNCHANGED <<ended, deltaLog, terminated>>

\* The settlement of a pending command that ends no request.
Settle(op, task, s) ==
  /\ Step(op, task.rid, NoEvent, s)
  /\ UNCHANGED <<ended, deltaLog, terminated>>

Pending(cmd) == {t \in BagToSet(pending) : t.cmd = cmd}

\* No text is in the Privacy Shield, no completion runs in a provider.
NoShield ==
  [phase |-> "idle", text |-> <<>>, candidates |-> {},
   scanResult |-> [hasPii |-> FALSE, items |-> <<>>],
   masked |-> <<>>, mapping |-> <<>>, input |-> <<>>,
   restored |-> <<>>, restoredTwice |-> <<>>]

NoCompletion == [transport |-> <<>>, events |-> <<>>, closed |-> TRUE]

\* No keydown event is at the action chips.
NoKeydown ==
  [chips |-> <<>>, key |-> <<>>, target |-> "", handled |-> TRUE,
   prevented |-> FALSE, emitted |-> <<>>]

\* The store after construction.
StoreInit ==
  /\ isVisible = FALSE
  /\ panelMode = "idle"
  /\ clipboardContent = None
  /\ processedContent = ""
  /\ streamingContent = ""
  /\ actionChips = <<>>
  /\ selectedChipIndex = 0
  /\ currentRequestId = None
  /\ privacyStatus = [type |-> "local"]
  /\ maskedMapping = <<>>
  /\ config = None
  /\ errorMessage = None
  /\ pending = EmptyBag
  /\ idsUsed = 0
  /\ sendLog = {}
  /\ cancelLog = {}
  /\ ended = {}
  /\ deltaLog = [r \in ReqIds |-> ""]
  /\ terminated = {}
  /\ last = [op |-> "init", rid |-> 0, ev |-> NoEvent, cur |-> None]
  /\ steps = 0
  /\ windowShown = FALSE
  /\ isDragging = FALSE
  /\ showSettings = FALSE
  /\ settings = NoSettings

Init ==
  /\ StoreInit
  /\ shield = NoShield
  /\ completion = NoCompletion
  /\ keydown = NoKeydown

\* ---- calls
ShowPanel ==
  /\ Call("showPanel", showPanel(S))

HidePanel ==
  /\ Call("hidePanel", hidePanel(S))

RefreshClipboard ==
  /\ Call("refreshClipboard", refreshClipboard(S))

ProcessWithRule ==
  /\ \E ruleId \in RuleIds : Call("processWithRule", processWithRule(S, ruleId))

ProcessWithAI ==
  /\ \E prompt \in Prompts : Call("processWithAI", processWithAI(S, prompt))

CancelAI ==
  /\ Call("cancelAI", cancelAI(S))

\* confirmAndClose, the one caller of confirmPaste: when confirmPaste has
\* returned, the window is hidden.
ConfirmPaste ==
  /\ PanelStep("confirmPaste", confirmPaste(S))
  /\ IF contentToPaste(S) = "" THEN hideWindow ELSE UNCHANGED panelVars

LoadConfig ==
  /\ Call("loadConfig", loadConfig(S))

SaveConfig ==
  /\ \E newConfig \in Configs : Call("saveConfig", saveConfig(S, newConfig))

Reset ==
  /\ Call("reset", reset(S))

\* ---- the floating panel
\* The hotkey shows the window, and the listener of panel:show runs.
PanelShow ==
  /\ PanelStep("panel:show", showPanel(reset(S)))
  /\ windowShown' = TRUE
  /\ showSettings' = FALSE
  /\ UNCHANGED isDragging

\* The shown window loses focus: the handler of onFocusChanged hides it
\* unless a drag, a processing or the settings keep it.
FocusLost ==
  /\ windowShown
  /\ PanelStep("blur", S)
  /\ windowShown' = IF ~isDragging /\ ~isProcessing(S) /\ ~showSettings
                      THEN FALSE ELSE windowShown
  /\ UNCHANGED <<isDragging, showSettings>>

StartDrag ==
  /\ windowShown /\ ~isDragging
  /\ PanelStep("startDrag", S)
  /\ isDragging' = TRUE
  /\ UNCHANGED <<windowShown, showSettings>>

\* The timer of startDrag fires.
DragEnds ==
  /\ isDragging
  /\ PanelStep("dragEnds", S)
  /\ isDragging' = FALSE
  /\ UNCHANGED <<windowShown, showSettings>>

\* handleKeydown of the command input for Escape.
handleKeydown_Escape ==
  IF showSettings
    THEN /\ PanelStep("Escape", S)
         /\ showSettings' = FALSE
         /\ UNCHANGED <<windowShown, isDragging>>
    ELSE IF isProcessing(S)
           THEN /\ PanelStep("Escape", cancelAI(S))
                /\ UNCHANGED panelVars
           ELSE /\ PanelStep("Escape", S)
                /\ hideWindow

\* The user presses Escape: handleKeydown listens on the command input,
\* which is rendered only while the settings are closed; nothing listens
\* while they are open.
Escape ==
  /\ windowShown
  /\ IF showSettings
       THEN /\ PanelStep("Escape", S)
            /\ UNCHANGED panelVars
       ELSE handleKeydown_Escape

\* Ctrl+, opens the settings, and the close of the settings panel closes
\* them.
ToggleSettings ==
  /\ windowShown
  /\ PanelStep("toggleSettings", S)
  /\ showSettings' = ~showSettings
  /\ UNCHANGED <<windowShown, isDragging>>

\* ---- settlements of pending commands
ReadClipboardResolves ==
  \E task \in Pending("read_clipboard"), text \in ClipTexts :
    Settle("read_clipboard:ok", task,
           refreshClipboard_resolved(settle(S, task), [text |-> text]))

ReadClipboardRejects ==
  \E task \in Pending("read_clipboard"), e \in Rejections :
    Settle("read_clipboard:err", task, refreshClipboard_rejected(settle(S, task), e))

ScanPiiResolves ==
  \E task \in Pending("scan_pii") :
    Settle("scan_pii:ok", task, scanPrivacy_resolved(settle(S, task), ScanPii(task.text)))

ScanPiiRejects ==
  \E task \in Pending("scan_pii") :
    Settle("scan_pii:err", task, scanPrivacy_rejected(settle(S, task)))

ApplyRuleResolves ==
  \E task \in Pending("apply_rule"), result \in RuleResults :
    Settle("apply_rule:ok", task, processWithRule_resolved(settle(S, task), result))

ApplyRuleRejects ==
  \E task \in Pending("apply_rule"), e \in Rejections :
    Settle("apply_rule:err", task, processWithRule_rejected(settle(S, task), e))

\* write_clipboard settles: confirmPaste returns, either way, and
\* confirmAndClose hides the window.
WriteClipboardResolves ==
  \E task \in Pending("write_clipboard") :
    /\ PanelStep("write_clipboard:ok", confirmPaste_resolved(settle(S, task)))
    /\ hideWindow

WriteClipboardRejects ==
  \E task \in Pending("write_clipboard"), e \in Rejections :
    /\ PanelStep("write_clipboard:err", confirmPaste_rejected(settle(S, task), e))
    /\ hideWindow

GetConfigResolves ==
  \E task \in Pending("get_config"), cfg \in Configs :
    Settle("get_config:ok", task, loadConfig_resolved(settle(S, task), cfg))

GetConfigRejects ==
  \E task \in Pending("get_config") :
    Settle("get_config:err", task, settle(S, task))

SetConfigResolves ==
  \E task \in Pending("set_config") :
    Settle("set_config:ok", task, saveConfig_resolved(settle(S, task), task.config))

SetConfigRejects ==
  \E task \in Pending("set_config"), e \in Rejections :
    Settle("set_config:err", task, saveConfig_rejected(settle(S, task), e))

GetApiKeyResolves ==
  \E task \in Pending("get_api_key") :
    Settle("get_api_key:ok", task, processWithAI_send(settle(S, task), task.rid, task.text))

\* A rejected get_api_key runs the catch of processWithAI.
GetApiKeyRejects ==
  \E task \in Pending("get_api_key"), e \in Rejections :
    /\ Step("get_api_key:err", task.rid, NoEvent, processWithAI_rejected(settle(S, task), e))
    /\ terminated' = terminated \cup {task.rid}
    /\ UNCHANGED <<ended, deltaLog>>

SendAiRequestResolves ==
  \E task \in Pending("send_ai_request") :
    Settle("send_ai_request:ok", task, settle(S, task))

\* send_ai_request rejects, which ends the request in place of a terminal
\* event, and the catch of processWithAI runs.
SendAiRequestRejects ==
  \E task \in Pending("send_ai_request"), e \in Rejections :
    /\ task.rid \notin ended
    /\ Step("send_ai_request:err", task.rid, NoEvent, processWithAI_rejected(settle(S, task), e))
    /\ ended' = ended \cup {task.rid}
    /\ terminated' = terminated \cup {task.rid}
    /\ UNCHANGED deltaLog

\* cancel_ai_request returns or throws: cancelAI resumes either way.
CancelAiRequestSettles ==
  \E task \in Pending("cancel_ai_request") :
    /\ Step("cancel_ai_request:settled", task.rid, NoEvent, cancelAI_settled(settle(S, task)))
    /\ terminated' = terminated \cup {task.rid}
    /\ UNCHANGED <<ended, deltaLog>>

\* ---- events
\* The requests the backend was sent and whose stream has not ended: the
\* backend emits events only for a request it was sent, and none after the
\* request's terminal event.
Streaming == {r.requestId : r \in sendLog} \ ended

\* The listener of a channel, if the panel registered one.
dispatch(s, channel, payload) ==
  IF channel \notin Listeners THEN s
  ELSE IF channel = "ai:chunk" THEN handleAIChunk(s, payload)
  ELSE handleAIError(s, payload)

\* The event reaches a handler that does not discard it.
Accepted(channel, payload) ==
  channel \in Listeners /\ Some(payload.requestId) = currentRequestId

EmitDelta ==
  \E rid \in Streaming, content \in Contents :
    /\ Step("ai:chunk", rid, ChunkEvent(rid, content, FALSE),
            dispatch(S, "ai:chunk", ChunkEvent(rid, content, FALSE)))
    /\ deltaLog' = [deltaLog EXCEPT ![rid] = @ \o content]
    /\ UNCHANGED <<ended, terminated>>

\* The completion event, on ai:chunk with done set or on ai:done.
EmitDone ==
  \E rid \in Streaming, content \in DoneContents, channel \in {"ai:chunk", "ai:done"} :
    /\ Step(channel, rid, ChunkEvent(rid, content, TRUE),
            dispatch(S, channel, ChunkEvent(rid, content, TRUE)))
    /\ ended' = ended \cup {rid}
    /\ terminated' = IF Accepted(channel, ChunkEvent(rid, content, TRUE))
                       THEN terminated \cup {rid} ELSE terminated
    /\ UNCHANGED deltaLog

EmitError ==
  \E rid \in Streaming, code \in ErrorCodes, message \in ErrorMessages :
    /\ Step("ai:error", rid, ErrorEvent(rid, code, message),
            dispatch(S, "ai:error", ErrorEvent(rid, code, message)))
    /\ ended' = ended \cup {rid}
    /\ terminated' = IF Accepted("ai:error", ErrorEvent(rid, code, message))
                       THEN terminated \cup {rid} ELSE terminated
    /\ UNCHANGED deltaLog

Next ==
  \/ ShowPanel \/ RefreshClipboard
  \/ ProcessWithAI \/ CancelAI \/ ProcessWithRule
  \/ HidePanel \/ Reset
  \/ ConfirmPaste \/ LoadConfig \/ SaveConfig
  \/ PanelShow \/ FocusLost \/ StartDrag \/ DragEnds \/ ToggleSettings
  \/ Escape
  \/ EmitDelta \/ EmitDone \/ EmitError
  \/ ReadClipboardResolves \/ ReadClipboardRejects
  \/ ScanPiiResolves \/ ScanPiiRejects
  \/ ApplyRuleResolves \/ ApplyRuleRejects
  \/ WriteClipboardResolves \/ WriteClipboardRejects
  \/ GetConfigResolves \/ GetConfigRejects
  \/ SetConfigResolves \/ SetConfigRejects
  \/ GetApiKeyResolves \/ GetApiKeyRejects
  \/ SendAiRequestResolves \/ SendAiRequestRejects
  \/ CancelAiRequestSettles

Spec == Init /\ [][Next]_vars

\* ---------------------------------------------- settings panel at work
\* ---- the inputs
\* What the user types into the fields of the form.
Hotkeys == {<<>>, DefaultHotkey, <<"F", "9">>}
OllamaBaseUrls == {<<>>, DefaultOllamaBaseUrl}
OpenaiBaseUrls ==
  {<<>>, DefaultOpenaiBaseUrl, <<"h", "t", "t", "p", ":", "/", "/", "a">>}
ModelNames == {<<>>, DefaultModelName}
ApiKeys == {<<>>, <<" ">>, <<"k">>}

\* What list_local_models and get_api_key answer with.
ModelLists == {<<>>, <<DefaultModelName>>}
StoredKeys == {None, Some(<<"k">>)}

\* The commands the settings panel invokes.
SettingsCommands ==
  {"set_config", "set_api_key", "register_hotkey", "check_ollama_health",
   "list_local_models", "get_api_key"}

P == Panel(S, settings, showSettings)

Settled(task) == Panel(settle(S, task), settings, showSettings)

\* One step of the settings panel: the store, the settings and showSettings
\* after it, and the step recorded.
SettingsStep(op, p) ==
  /\ steps < MaxSteps
  /\ steps' = steps + 1
  /\ Commit(p.store)
  /\ settings' = p.settings
  /\ showSettings' = p.showSettings
  /\ last' = Last(op, 0, NoEvent)
  /\ UNCHANGED <<ended, deltaLog, terminated, windowShown, isDragging,
                 shield, completion, keydown>>

\* ---- the user
\* The settings are opened: a settings panel is set up and mounted, once
\* the commands of the one before have settled.
OpenSettings ==
  /\ ~showSettings
  /\ \A task \in BagToSet(pending) : task.cmd \notin SettingsCommands
  /\ SettingsStep("openSettings", onMounted([P EXCEPT !.showSettings = TRUE]))

\* The user changes one field of the form.
EditForm ==
  /\ showSettings
  /\ \/ \E v \in Hotkeys \ {settings.formData.hotkey} :
          SettingsStep("edit", setFormData(P, "hotkey", v))
     \/ \E v \in {"Ollama", "OpenAI"} \ {settings.formData.aiProvider} :
          SettingsStep("edit", handleProviderChange(setFormData(P, "aiProvider", v)))
     \/ \E v \in OllamaBaseUrls \ {settings.formData.ollamaBaseUrl} :
          SettingsStep("edit", setFormData(P, "ollamaBaseUrl", v))
     \/ \E v \in OpenaiBaseUrls \ {settings.formData.openaiBaseUrl} :
          SettingsStep("edit", setFormData(P, "openaiBaseUrl", v))
     \/ \E v \in ModelNames \ {settings.formData.modelName} :
          SettingsStep("edit", setFormData(P, "modelName", v))
     \/ \E v \in ApiKeys \ {settings.apiKey} :
          SettingsStep("edit", [P EXCEPT !.settings.apiKey = v])

HandleSave ==
  /\ showSettings /\ ~settings.isSaving
  /\ SettingsStep("handleSave", handleSave(P))

TestConnection ==
  /\ showSettings /\ ~settings.isTesting
  /\ SettingsStep("testConnection", testConnection(P))

HandleCancel ==
  /\ showSettings
  /\ SettingsStep("handleCancel", handleCancel(P))

\* ---- the configuration of the floating panel
\* onMounted of the floating panel loads the configuration.
PanelLoadsConfig ==
  /\ SettingsStep("loadConfig", [P EXCEPT !.store = loadConfig(@)])

\* get_config resolves: store.config holds an object of its own.
PanelConfigLoaded ==
  \E task \in Pending("get_config"), cfg \in Configs :
    SettingsStep("get_config:ok",
                 [Settled(task) EXCEPT !.store = loadConfig_resolved(@, cfg),
                                       !.settings.savedAsConfig = FALSE])

\* ---- settlements of the commands of the settings panel
\* set_config resolves: saveConfig returns, and handleSave goes on.
SaveConfigResolves ==
  \E task \in Pending("set_config") :
    SettingsStep("set_config:ok",
                 handleSave_configSaved(handleSave_configAssigned(Settled(task))))

\* set_config rejects: saveConfig catches the rejection and returns, and
\* handleSave goes on.
SaveConfigRejects ==
  \E task \in Pending("set_config"), e \in Rejections :
    SettingsStep("set_config:err",
                 handleSave_configSaved(
                   [Settled(task) EXCEPT !.store = saveConfig_rejected(@, e)]))

SetApiKeyResolves ==
  \E task \in Pending("set_api_key") :
    SettingsStep("set_api_key:ok", handleSave_apiKeySaved(Settled(task)))

SetApiKeyRejects ==
  \E task \in Pending("set_api_key"), e \in Rejections :
    SettingsStep("set_api_key:err", handleSave_rejected(Settled(task), e))

RegisterHotkeyResolves ==
  \E task \in Pending("register_hotkey") :
    SettingsStep("register_hotkey:ok", handleSave_hotkeyRegistered(Settled(task)))

RegisterHotkeyRejects ==
  \E task \in Pending("register_hotkey"), e \in Rejections :
    SettingsStep("register_hotkey:err", handleSave_rejected(Settled(task), e))

CheckOllamaHealthResolves ==
  \E task \in Pending("check_ollama_health"), healthy \in BOOLEAN :
    SettingsStep("check_ollama_health:ok", testConnection_resolved(Settled(task), healthy))

CheckOllamaHealthRejects ==
  \E task \in Pending("check_ollama_health") :
    SettingsStep("check_ollama_health:err", testConnection_rejected(Settled(task)))

\* list_local_models resolves: loadOllamaModels returns, and testConnection
\* ends if it was the caller.
ListLocalModelsResolves ==
  \E task \in Pending("list_local_models"), models \in ModelLists :
    LET p == loadOllamaModels_resolved(Settled(task), models)
    IN  SettingsStep("list_local_models:ok",
                     IF task.text = "testConnection"
                       THEN testConnection_finally(p) ELSE p)

ListLocalModelsRejects ==
  \E task \in Pending("list_local_models") :
    SettingsStep("list_local_models:err",
                 IF task.text = "testConnection"
                   THEN testConnection_finally(Settled(task)) ELSE Settled(task))

\* get_api_key of onMounted resolves, with the stored key or none.
LoadApiKeyResolves ==
  \E task \in Pending("get_api_key"), key \in StoredKeys :
    SettingsStep("get_api_key:ok",
                 onMounted_apiKeyLoaded(
                   [Settled(task) EXCEPT !.settings.apiKey =
                      IF key # None THEN key[1] ELSE @]))

LoadApiKeyRejects ==
  \E task \in Pending("get_api_key") :
    SettingsStep("get_api_key:err", onMounted_apiKeyLoaded(Settled(task)))

SettingsNext ==
  \/ PanelLoadsConfig \/ PanelConfigLoaded
  \/ OpenSettings \/ EditForm
  \/ HandleSave \/ TestConnection \/ HandleCancel
  \/ SaveConfigResolves \/ SaveConfigRejects
  \/ SetApiKeyResolves \/ SetApiKeyRejects
  \/ RegisterHotkeyResolves \/ RegisterHotkeyRejects
  \/ CheckOllamaHealthResolves \/ CheckOllamaHealthRejects
  \/ ListLocalModelsResolves \/ ListLocalModelsRejects
  \/ LoadApiKeyResolves \/ LoadApiKeyRejects

SettingsSpec == Init /\ [][SettingsNext]_vars

\* ------------------------------------------------- action chips at work
\* The number of chips the component is given.
MaxChips == 3

\* ---- the inputs
\* The chips, the keys (KeyboardEvent.key, a sequence of characters) and the
\* targets of a keydown event.
Chips == {"c1", "c2"}
Keys ==
  {<<"0">>, <<"1">>, <<"2">>, <<"3">>, <<"4">>, <<"a">>,
   <<"E", "n", "t", "e", "r">>, <<"F", "1">>}
Targets == {"HTMLInputElement", "HTMLTextAreaElement", "HTMLDivElement"}

\* The characters of the keys, in the order of their code units.
CodeUnitOrder ==
  <<"0", "1", "2", "3", "4", "5", "6", "7", "8", "9",
    "E", "F", "a", "e", "n", "r", "t">>

codeUnit(char) == CHOOSE n \in DOMAIN CodeUnitOrder : CodeUnitOrder[n] = char

\* a <= b as JavaScript compares strings.
RECURSIVE lessOrEqual(_, _)
lessOrEqual(a, b) ==
  IF a = <<>> THEN TRUE
  ELSE IF b = <<>> THEN FALSE
  ELSE IF Head(a) # Head(b) THEN codeUnit(Head(a)) < codeUnit(Head(b))
  ELSE lessOrEqual(Tail(a), Tail(b))

\* parseInt of a string that starts with a digit: the number of its leading
\* digits.
RECURSIVE parseDigits(_, _)
parseDigits(text, number) ==
  IF text # <<>> /\ Head(text) \in Digits
    THEN parseDigits(Tail(text), number * 10 + digitValue(Head(text)))
    ELSE number

parseInt(text) == parseDigits(text, 0)

\* handleKeydown of the action chips that does not look at the target.
handleKeydown_anyTarget(k) ==
  LET index == parseInt(k.key) - 1
  IN  IF /\ lessOrEqual(<<"1">>, k.key) /\ lessOrEqual(k.key, <<"3">>)
         /\ index < Len(k.chips)
        THEN [k EXCEPT !.handled = TRUE, !.prevented = TRUE,
                       !.emitted = Append(@, k.chips[index + 1])]
        ELSE [k EXCEPT !.handled = TRUE]

\* handleKeydown of the action chips.
handleKeydown(k) ==
  IF k.target \in {"HTMLInputElement", "HTMLTextAreaElement"}
    THEN [k EXCEPT !.handled = TRUE]
    ELSE LET index == parseInt(k.key) - 1
         IN  IF /\ lessOrEqual(<<"1">>, k.key) /\ lessOrEqual(k.key, <<"3">>)
                /\ index < Len(k.chips)
               THEN [k EXCEPT !.handled = TRUE, !.prevented = TRUE,
                              !.emitted = Append(@, k.chips[index + 1])]
               ELSE [k EXCEPT !.handled = TRUE]

\* ---- the action chips at work on one keydown event
ChipsInit ==
  /\ StoreInit
  /\ shield = NoShield
  /\ completion = NoCompletion
  /\ \E chips \in UNION {[1..n -> Chips] : n \in 0..MaxChips},
        key \in Keys, target \in Targets :
       keydown = [NoKeydown EXCEPT !.chips = chips, !.key = key,
                                   !.target = target, !.handled = FALSE]

HandleKeydown ==
  /\ ~keydown.handled
  /\ keydown' = handleKeydown(keydown)
  /\ UNCHANGED <<appVars, shield, completion>>

ChipsNext == HandleKeydown

ChipsSpec == ChipsInit /\ [][ChipsNext]_vars

\* -------------------------------------------- Privacy Shield at work
\* The number of fragments a text is made of, and the number of candidate
\* spans the Pattern Registry reports for one text.
MaxFragments == 2
MaxCandidates == 3

\* ---- the inputs
\* A card number that passes the checksum, and one that fails it.
ValidCard ==
  <<"4", "1", "1", "1", "1", "1", "1", "1", "1", "1", "1", "1", "1", "1", "1", "1">>
InvalidCard ==
  <<"4", "1", "1", "1", "1", "1", "1", "1", "1", "1", "1", "1", "1", "1", "1", "2">>

\* The fragments texts are made of: digit strings, and a placeholder-shaped
\* substring.
Fragments == {ValidCard, InvalidCard, Placeholder("Email", 1)}

\* A placeholder-shaped substring no mask produces, which a remote model may
\* put in a response.
Fabricated == Placeholder("Phone", 7)

RECURSIVE flatten(_)
flatten(parts) ==
  IF parts = <<>> THEN <<>> ELSE Head(parts) \o flatten(Tail(parts))

Parts == UNION {[1..n -> Fragments] : n \in 0..MaxFragments}

\* The offsets at which a fragment of the text starts or ends.
Boundaries(parts) == {Len(flatten(SubSeq(parts, 1, n))) : n \in 0..Len(parts)}

\* Every span between two boundaries, in every category.
Candidates(parts) ==
  LET text == flatten(parts)
  IN  {[piiType |-> category, value |-> SubSeq(text, span[1] + 1, span[2]),
        start |-> span[1], end |-> span[2]] :
         category \in Categories,
         span \in {b \in Boundaries(parts) \X Boundaries(parts) : b[1] < b[2]}}

\* The sets of at most k elements of a set.
RECURSIVE subsetsUpTo(_, _)
subsetsUpTo(set, k) ==
  IF k = 0
    THEN {{}}
    ELSE LET smaller == subsetsUpTo(set, k - 1)
         IN  smaller \cup {x \cup {c} : x \in smaller, c \in set}

\* The texts restore is given for a masked text: the masked text itself, and
\* responses of a remote model that add a placeholder-shaped substring.
Inputs(masked) == {masked, masked \o Fabricated, Fabricated \o masked}

\* ---- the Privacy Shield at work on one text
ShieldInit ==
  /\ StoreInit
  /\ completion = NoCompletion
  /\ keydown = NoKeydown
  /\ \E parts \in Parts :
       \E candidates \in subsetsUpTo(Candidates(parts), MaxCandidates) :
         shield = [NoShield EXCEPT !.phase = "input",
                                   !.text = flatten(parts),
                                   !.candidates = candidates]

ScanText ==
  /\ shield.phase = "input"
  /\ shield' = [shield EXCEPT !.phase = "scanned",
                              !.scanResult = scan(shield.candidates)]
  /\ UNCHANGED <<appVars, completion, keydown>>

\* The candidates are the scanner's own; the masker is given the text and
\* the scan result.
MaskText ==
  /\ shield.phase = "scanned"
  /\ LET result == mask(shield.text, shield.scanResult)
     IN  shield' = [shield EXCEPT !.phase = "masked",
                                  !.candidates = {},
                                  !.masked = result.masked,
                                  !.mapping = result.mapping]
  /\ UNCHANGED <<appVars, completion, keydown>>

RestoreText ==
  /\ shield.phase = "masked"
  /\ \E input \in Inputs(shield.masked) :
       shield' = [shield EXCEPT !.phase = "restored",
                                !.input = input,
                                !.restored = restore(input, shield.mapping)]
  /\ UNCHANGED <<appVars, completion, keydown>>

RestoreAgain ==
  /\ shield.phase = "restored"
  /\ shield' = [shield EXCEPT !.phase = "twice",
                              !.restoredTwice = restore(shield.restored, shield.mapping)]
  /\ UNCHANGED <<appVars, completion, keydown>>

ShieldNext == ScanText \/ MaskText \/ RestoreText \/ RestoreAgain

ShieldSpec == ShieldInit /\ [][ShieldNext]_vars

\* ------------------------------------------------------------- provider
\* The number of frames of a transport.
MaxFrames == 3

\* What a provider reads from its chunked transport: a frame that carries
\* text, the frame that marks the end of the completion, or bytes that do not
\* decode to a frame.
Frames ==
  {[kind |-> "data", text |-> "a"], [kind |-> "data", text |-> "b"],
   [kind |-> "done", text |-> ""], [kind |-> "malformed", text |-> ""]}

\* StreamEvent: Delta{text} | Done{finalText} | Error{kind}.
Delta(text) == [type |-> "Delta", text |-> text]
Done(finalText) == [type |-> "Done", text |-> finalText]
Error(kind) == [type |-> "Error", text |-> kind]

\* The text of the deltas emitted so far.
RECURSIVE finalText(_)
finalText(events) ==
  IF events = <<>>
    THEN ""
    ELSE (IF Head(events).type = "Delta" THEN Head(events).text ELSE "")
           \o finalText(Tail(events))

\* complete that reports a frame it cannot decode and reads on.
complete_read_readsOn(c) ==
  LET frame == Head(c.transport)
  IN  IF frame.kind = "data"
        THEN [c EXCEPT !.transport = Tail(@),
                       !.events = Append(@, Delta(frame.text))]
        ELSE IF frame.kind = "done"
               THEN [c EXCEPT !.transport = Tail(@),
                              !.events = Append(@, Done(finalText(c.events))),
                              !.closed = TRUE]
               ELSE [c EXCEPT !.transport = Tail(@),
                              !.events = Append(@, Error("DecodeError"))]

\* complete reads the next frame: text is a Delta, the end mark is the Done
\* that ends the sequence, a frame that does not decode is the Error that
\* ends it.
complete_read(c) ==
  LET frame == Head(c.transport)
  IN  IF frame.kind = "data"
        THEN [c EXCEPT !.transport = Tail(@),
                       !.events = Append(@, Delta(frame.text))]
        ELSE IF frame.kind = "done"
               THEN [c EXCEPT !.transport = Tail(@),
                              !.events = Append(@, Done(finalText(c.events))),
                              !.closed = TRUE]
               ELSE [c EXCEPT !.transport = Tail(@),
                              !.events = Append(@, Error("DecodeError")),
                              !.closed = TRUE]

\* The transport ends before its end mark: the sequence is ended by a
\* terminal event all the same.
complete_end(c, terminal) ==
  [c EXCEPT !.events = Append(@, terminal), !.closed = TRUE]

ProviderInit ==
  /\ StoreInit
  /\ shield = NoShield
  /\ keydown = NoKeydown
  /\ \E transport \in UNION {[1..n -> Frames] : n \in 0..MaxFrames} :
       completion = [transport |-> transport, events |-> <<>>, closed |-> FALSE]

ReadFrame ==
  /\ ~completion.closed
  /\ completion.transport # <<>>
  /\ completion' = complete_read(completion)
  /\ UNCHANGED <<appVars, shield, keydown>>

EndOfTransport ==
  /\ ~completion.closed
  /\ completion.transport = <<>>
  /\ \E terminal \in {Done(finalText(completion.events)), Error("ConnectionFailed")} :
       completion' = complete_end(completion, terminal)
  /\ UNCHANGED <<appVars, shield, keydown>>

ProviderNext == ReadFrame \/ EndOfTransport

\* The provider keeps reading until the sequence is ended.
ProviderSpec == ProviderInit /\ [][ProviderNext]_vars /\ WF_vars(ProviderNext)

\* ------------------------------------------------------------------ claims
\* The step just taken delivered an event to a registered listener.
EventHandled == last.op \in Listeners

\* What the panel shows of a request.
visible == <<streamingContent, processedContent, panelMode, errorMessage>>

\* C1: an ai:chunk (delta or done) or ai:error event whose requestId is not
\* currentRequestId leaves streamingContent, processedContent, panelMode,
\* errorMessage and currentRequestId unchanged.
C1_StaleEventDiscarded ==
  [][(last'.op \in Listeners /\ Some(last'.ev.requestId) # currentRequestId)
       => UNCHANGED <<visible, currentRequestId>>]_vars

\* C1 witness: a delta of a superseded request was delivered while a newer
\* request was current.
C1_Witness ==
  /\ EventHandled
  /\ last.cur # None
  /\ Some(last.ev.requestId) # last.cur
  /\ currentRequestId = last.cur

\* C2: while a request is current, streamingContent is the concatenation, in
\* delivery order, of the deltas delivered for it since it was started.
C2_StreamIsDeltasOfCurrent ==
  currentRequestId # None => streamingContent = deltaLog[currentRequestId[1]]

\* C3: once cancelAI was invoked for a request, no event tagged with it that
\* is delivered afterwards changes what the panel shows.
C3_CancelImmediate ==
  [][(last'.op \in Listeners /\ last'.ev.requestId \in cancelLog)
       => UNCHANGED visible]_vars

\* C4: when the cancel command issued for a request returns while a newer
\* request is current, the newer request stays current and processing.
C4_CancelMatchesRequest ==
  [][(/\ last'.op = "cancel_ai_request:settled"
      /\ currentRequestId # None
      /\ currentRequestId # Some(last'.rid))
       => /\ currentRequestId' = currentRequestId
          /\ (panelMode = "processing" => panelMode' = "processing")]_vars

\* C5: processWithAI called while a request A is current makes a fresh id the
\* current request and issues a cancel for A to the backend, and every event
\* tagged with a request older than the newest one is discarded.
C5_Superseding ==
  [][/\ (last'.op = "processWithAI" /\ idsUsed' # idsUsed /\ currentRequestId # None)
          => /\ currentRequestId' # None
             /\ currentRequestId'[1] \notin 1..idsUsed
             /\ currentRequestId[1] \in cancelLog'
     /\ (last'.op \in Listeners /\ last'.ev.requestId < idsUsed)
          => UNCHANGED visible]_vars

\* The step applies a terminal outcome to the store: an accepted done or
\* error event, the catch of processWithAI, or the resumption of cancelAI.
TerminalStep ==
  \/ last'.op \in {"get_api_key:err", "send_ai_request:err", "cancel_ai_request:settled"}
  \/ /\ last'.op \in Listeners
     /\ Some(last'.ev.requestId) = currentRequestId
     /\ (last'.ev.done \/ last'.op = "ai:error")

\* C6: once a terminal outcome was applied for a request id, no later event
\* or settlement of that id applies another or changes panelMode,
\* processedContent or errorMessage.
C6_SingleTerminalOutcome ==
  [][(last'.rid \in terminated)
       => /\ ~TerminalStep
          /\ UNCHANGED <<panelMode, processedContent, errorMessage>>]_vars

\* C7: every send_ai_request whose prompt embeds a clipboard text in which
\* scan_pii finds PII was invoked with usePrivacyShield set.
C7_ShieldWhenPii ==
  \A r \in sendLog :
    \A prompt \in Prompts, text \in ClipTexts :
      (r.prompt = prompt \o "\n\nContent:\n" \o text /\ ScanPii(text).hasPii)
        => r.usePrivacyShield

\* C8: after a done event tagged with the current request id was handled,
\* processedContent is the delivered content, panelMode is 'result',
\* streamingContent is empty and currentRequestId is null.
C8_DoneCompletes ==
  (last.op = "ai:chunk" /\ last.ev.done /\ Some(last.ev.requestId) = last.cur)
    => /\ processedContent = last.ev.content
       /\ panelMode = "result"
       /\ streamingContent = ""
       /\ currentRequestId = None

\* C8 witness: a request that had streamed a delta was completed by its done
\* event.
C8_Witness ==
  /\ last.op = "ai:chunk"
  /\ last.ev.done
  /\ Some(last.ev.requestId) = last.cur
  /\ deltaLog[last.ev.requestId] # ""
  /\ panelMode = "result"

\* C9: after an error event tagged with the current request id was handled,
\* errorMessage carries the event's code and message, panelMode is not
\* 'processing' and currentRequestId is null.
C9_ErrorFails ==
  (last.op = "ai:error" /\ Some(last.ev.requestId) = last.cur)
    => /\ errorMessage = Some("AI Error [" \o last.ev.code \o "]: " \o last.ev.message)
       /\ panelMode # "processing"
       /\ currentRequestId = None

\* C9 witness: the current request was failed by its error event.
C9_Witness ==
  /\ last.op = "ai:error"
  /\ Some(last.ev.requestId) = last.cur
  /\ errorMessage # None

\* C10: once the backend has emitted the completion event ai:done for the
\* current request, the store is in 'result' with the event's content.
C10_DoneEventCompletes ==
  (last.op = "ai:done" /\ Some(last.ev.requestId) = last.cur)
    => /\ panelMode = "result"
       /\ processedContent = last.ev.content

\* C11: cancelAI with no current request changes nothing and invokes no
\* command; no call of cancelAI and no settlement of cancel_ai_request, also
\* of a second cancel of the same request or of a failed one, changes
\* errorMessage, and after the settlement panelMode is 'preview' and
\* currentRequestId is null.
C11_CancelIdempotent ==
  [][/\ (last'.op = "cancelAI" /\ currentRequestId = None) => UNCHANGED storeVars
     /\ (last'.op = "cancelAI") => errorMessage' = errorMessage
     /\ (last'.op = "cancel_ai_request:settled")
          => /\ errorMessage' = errorMessage
             /\ panelMode' = "preview"
             /\ currentRequestId' = None]_vars

\* C11 witness: cancelAI was called twice for the same request; the first
\* cancel has settled and the second is still pending.
C11_Witness ==
  /\ last.op = "cancel_ai_request:settled"
  /\ \E task \in Pending("cancel_ai_request") : task.rid = last.rid
  /\ panelMode = "preview"
  /\ errorMessage = None

\* C12: send_ai_request is invoked only by processWithAI (the call or its
\* continuation after get_api_key), at most once per request id, and for no
\* more request ids than processWithAI calls made with clipboard text.
C12_NoAutomaticRetry ==
  /\ [](/\ Cardinality(sendLog) <= idsUsed
        /\ \A r1, r2 \in sendLog : r1.requestId = r2.requestId => r1 = r2)
  /\ [][sendLog' # sendLog => last'.op \in {"processWithAI", "get_api_key:ok"}]_vars

\* C12 witness: a request was sent and failed, other steps followed, and it
\* is still the only request sent.
C12_Witness ==
  /\ Cardinality(sendLog) = 1
  /\ terminated # {}
  /\ errorMessage # None
  /\ last.op \notin {"ai:error", "send_ai_request:err", "processWithAI"}

\* The step is one of those that may clear the slot of the current request:
\* its own done or error event, its own send failure, a cancel of it, a
\* superseding start, or reset.
OwnClearingStep ==
  \/ /\ last'.op \in Listeners
     /\ Some(last'.ev.requestId) = currentRequestId
     /\ (last'.ev.done \/ last'.op = "ai:error")
  \/ /\ last'.op \in {"get_api_key:err", "send_ai_request:err", "cancel_ai_request:settled"}
     /\ Some(last'.rid) = currentRequestId
  \/ last'.op \in {"processWithAI", "reset", "write_clipboard:ok"}

\* C13: currentRequestId of a request in flight changes only by that
\* request's own done/error event, its own send failure, a cancel of it, a
\* superseding start or reset; no settlement of apply_rule, read_clipboard,
\* write_clipboard or set_config clears it.
C13_SingleWriter ==
  [][(currentRequestId # None /\ currentRequestId' # currentRequestId)
       => OwnClearingStep]_vars

\* C14: panelMode becomes 'result' only in a step taken with panelMode
\* 'processing'.
C14_ResultOnlyFromProcessing ==
  [][(panelMode' = "result" /\ panelMode # "result") => panelMode = "processing"]_vars

\* The placeholder-shaped substrings of a text: where they start, and what
\* they are.
Occurrences(text) == {i \in 1..Len(text) : placeholderLength(text, i) > 0}

Token(text, i) == SubSeq(text, i, i + placeholderLength(text, i) - 1)

\* By how much restore moves what follows the mapped placeholders at the
\* given positions.
RECURSIVE Shift(_, _, _)
Shift(text, mapping, positions) ==
  IF positions = {}
    THEN 0
    ELSE LET i == CHOOSE i \in positions : TRUE
         IN  Len(mapping[Token(text, i)]) - Len(Token(text, i))
               + Shift(text, mapping, positions \ {i})

Mapped(text, mapping) == {i \in Occurrences(text) : Token(text, i) \in DOMAIN mapping}

\* C15: restore of the unmodified masked text with the mapping of the same
\* mask is the text that was masked.
C15_RoundTrip ==
  (shield.phase = "restored" /\ shield.input = shield.masked)
    => shield.restored = shield.text

\* C16: every placeholder-shaped substring of restore's input that is not a
\* key of the mapping stands verbatim in the output, where the replacements
\* before it have moved it.
C16_UnknownPlaceholdersKept ==
  (shield.phase = "restored")
    => \A i \in Occurrences(shield.input) \ Mapped(shield.input, shield.mapping) :
         startsWith(shield.restored,
                    i + Shift(shield.input, shield.mapping,
                              {k \in Mapped(shield.input, shield.mapping) : k < i}),
                    Token(shield.input, i))

\* C16 witness: restore was given a text with a mapped placeholder followed
\* by a placeholder the mapping does not have.
C16_Witness ==
  /\ shield.phase = "restored"
  /\ \E i \in Occurrences(shield.input) \ Mapped(shield.input, shield.mapping) :
       \E k \in Mapped(shield.input, shield.mapping) : k < i
  /\ shield.restored # shield.input

\* C17: when the restored text has no placeholder that is a key of the
\* mapping, restoring it again with the same mapping gives the same text.
C17_RestoreIdempotent ==
  (shield.phase = "twice" /\ Mapped(shield.restored, shield.mapping) = {})
    => shield.restoredTwice = shield.restored

\* C17 witness: a text with a mapped and an unknown placeholder was restored
\* twice, and the unknown placeholder is still there.
C17_Witness ==
  /\ shield.phase = "twice"
  /\ Mapped(shield.restored, shield.mapping) = {}
  /\ Mapped(shield.input, shield.mapping) # {}
  /\ Occurrences(shield.restored) # {}

\* C18: the matches of a scan result have start < end, are in ascending
\* order of start, and no two of them intersect.
C18_ScanResultSortedDisjoint ==
  (shield.phase = "scanned")
    => LET items == shield.scanResult.items
       IN  /\ \A k \in DOMAIN items : items[k].start < items[k].end
           /\ \A j, k \in DOMAIN items :
                j < k => /\ items[j].start < items[k].start
                         /\ ~Intersects(items[j], items[k])

\* C18 witness: candidates that intersect were scanned, and two matches are
\* left.
C18_Witness ==
  /\ shield.phase = "scanned"
  /\ \E a, b \in shield.candidates : a # b /\ Intersects(a, b)
  /\ Len(shield.scanResult.items) >= 2

\* The priority order of the categories, highest first: APIKey > BankCard >
\* NationalId (IDCard) > Phone > Email > IPAddress (IP).
PriorityOrder == <<"APIKey", "BankCard", "IDCard", "Phone", "Email", "IP">>

Rank(category) == CHOOSE k \in DOMAIN PriorityOrder : PriorityOrder[k] = category

Outranks(a, b) == Rank(a.piiType) < Rank(b.piiType)

Matches == {shield.scanResult.items[k] : k \in DOMAIN shield.scanResult.items}

\* The candidate spans overlap resolution is given.
Resolved == accepted(shield.candidates)

\* C19: whenever two candidate spans intersect, the one of the lower-priority
\* category is absent from the scan result and the other is kept.
C19_PriorityResolution ==
  (shield.phase = "scanned")
    => \A a, b \in Resolved :
         (Intersects(a, b) /\ Outranks(a, b)) => (a \in Matches /\ b \notin Matches)

\* C19 as amended: whenever two candidate spans intersect and the one of the
\* higher-priority category is in the scan result, the other is absent; and
\* a candidate whose category outranks that of every candidate it intersects
\* is kept.
C19_PriorityResolutionAmended ==
  (shield.phase = "scanned")
    => /\ \A a, b \in Resolved :
            (Intersects(a, b) /\ Outranks(a, b) /\ a \in Matches) => b \notin Matches
       /\ \A a \in Resolved :
            (\A b \in Resolved \ {a} : Intersects(a, b) => Outranks(a, b))
              => a \in Matches

\* C19 witness: three candidates in a chain, the middle one removed by the
\* first and the last one kept.
C19_Witness ==
  /\ shield.phase = "scanned"
  /\ \E a, b, c \in shield.candidates :
       /\ Outranks(a, b) /\ Outranks(b, c)
       /\ Intersects(a, b) /\ Intersects(b, c) /\ ~Intersects(a, c)
       /\ a \in Matches /\ b \notin Matches /\ c \in Matches

Terminal(event) == event.type \in {"Done", "Error"}

\* C20: in the event sequence of a completion nothing follows a Done or an
\* Error, so there is at most one of them and no Delta after it; when
\* complete has returned the sequence ends with one; and complete returns,
\* also when a frame does not decode or the transport breaks off.
C20_TerminalExclusivity ==
  /\ [](/\ \A k \in DOMAIN completion.events :
             Terminal(completion.events[k]) => k = Len(completion.events)
        /\ completion.closed
             => /\ completion.events # <<>>
                /\ Terminal(completion.events[Len(completion.events)]))
  /\ <>(completion.closed)

\* C20 witness: a frame did not decode after a Delta, with frames left
\* unread, and the sequence ended with the Error.
C20_Witness ==
  /\ completion.closed
  /\ completion.transport # <<>>
  /\ Len(completion.events) >= 2
  /\ completion.events[1].type = "Delta"
  /\ completion.events[Len(completion.events)].type = "Error"

\* The digit sum of twice a digit.
DoubleTable == <<0, 2, 4, 6, 8, 1, 3, 5, 7, 9>>

\* The mod-10 double-and-sum check, from the definition: counted from the
\* right, the digits at even places are replaced by the digit sum of their
\* double, and the sum of all digits is a multiple of 10.
RECURSIVE LuhnTotal(_, _)
LuhnTotal(value, i) ==
  IF i > Len(value)
    THEN 0
    ELSE LET d == CHOOSE n \in 0..9 : Digit[n + 1] = value[i]
         IN  (IF (Len(value) - i) % 2 = 1 THEN DoubleTable[d + 1] ELSE d)
               + LuhnTotal(value, i + 1)

LuhnValid(value) ==
  /\ value # <<>>
  /\ \A i \in DOMAIN value : value[i] \in Digits
  /\ LuhnTotal(value, 1) % 10 = 0

\* C21: every BankCard match of a scan result passes the mod-10
\* double-and-sum check, a BankCard candidate that fails it is not among the
\* matches, and a BankCard candidate 4111111111111111 that intersects no
\* APIKey candidate and no other BankCard candidate is reported.
C21_BankCardChecksum ==
  (shield.phase = "scanned")
    => /\ \A m \in Matches : m.piiType = "BankCard" => LuhnValid(m.value)
       /\ \A c \in shield.candidates :
            (c.piiType = "BankCard" /\ ~LuhnValid(c.value)) => c \notin Matches
       /\ \A c \in shield.candidates :
            (/\ c.piiType = "BankCard"
             /\ c.value = ValidCard
             /\ \A k \in shield.candidates \ {c} :
                  k.piiType \in {"APIKey", "BankCard"} => ~Intersects(k, c))
              => c \in Matches

\* C21 witness: a text with the valid and the failing card number, both
\* BankCard candidates, of which the valid one alone is reported.
C21_Witness ==
  /\ shield.phase = "scanned"
  /\ \E c, d \in shield.candidates :
       /\ c.piiType = "BankCard" /\ c.value = ValidCard
       /\ d.piiType = "BankCard" /\ d.value = InvalidCard
       /\ ~Intersects(c, d)
       /\ c \in Matches /\ d \notin Matches

C23_PrivacyStatusMatchesScan ==
  /\ [](privacyStatus.type = "cloud-masked" => privacyStatus.maskedCount >= 1)
  /\ [][(last'.op = "scan_pii:ok")
          => \E task \in Pending("scan_pii") :
               /\ pending' = pending (-) SetToBag({task})
               /\ ScanPii(task.text).hasPii <=> (ScanPii(task.text).items # <<>>)
               /\ (privacyStatus'.type = "cloud-safe")
                    <=> (Len(ScanPii(task.text).items) = 0)
               /\ (privacyStatus'.type = "cloud-masked")
                    <=> (Len(ScanPii(task.text).items) >= 1)]_vars

\* C23 witness: the scan of a clipboard text with an e-mail address has
\* resolved.
C23_Witness ==
  /\ last.op = "scan_pii:ok"
  /\ clipboardText(S) = "a@b.c"
  /\ privacyStatus.type = "cloud-masked"

\* The text starts with https://, and the text is empty or all spaces.
HttpsPrefixed(text) ==
  /\ Len(text) >= 8
  /\ <<text[1], text[2], text[3], text[4], text[5], text[6], text[7], text[8]>>
       = <<"h", "t", "t", "p", "s", ":", "/", "/">>

Blank(text) == \A i \in DOMAIN text : text[i] = " "

\* The form is for OpenAI, and its base URL does not start with https:// or
\* its API key is blank.
OpenAIFormRefused ==
  /\ settings.formData.aiProvider = "OpenAI"
  /\ \/ ~HttpsPrefixed(settings.formData.openaiBaseUrl)
     \/ Blank(settings.apiKey)

\* C24: for OpenAI with a base URL that does not start with https:// or with
\* a blank API key, validateForm fails, and handleSave and testConnection
\* invoke no backend command and do not emit close.
C24_InvalidOpenAIFormRefused ==
  [][(last'.op \in {"handleSave", "testConnection"} /\ OpenAIFormRefused)
       => /\ DOMAIN settings'.errors # {}
          /\ pending' = pending
          /\ settings'.closes = settings.closes
          /\ showSettings' = showSettings]_vars

\* C24 witness: handleSave ran on an OpenAI form with an http:// base URL and
\* an API key, and testConnection on an OpenAI form with a blank API key.
C24_Witness ==
  /\ last.op \in {"handleSave", "testConnection"}
  /\ settings.formData.aiProvider = "OpenAI"
  /\ \/ /\ last.op = "handleSave"
        /\ settings.formData.openaiBaseUrl # <<>>
        /\ ~HttpsPrefixed(settings.formData.openaiBaseUrl)
        /\ ~Blank(settings.apiKey)
     \/ /\ last.op = "testConnection"
        /\ HttpsPrefixed(settings.formData.openaiBaseUrl)
        /\ settings.apiKey = <<" ">>
  /\ DOMAIN settings.errors # {}

\* C25: a loss of focus while a request is current never hides the window;
\* a loss of focus hides the window only when no request is current, no drag
\* is in progress and the settings are closed.
C25_BlurKeepsRequestInFlight ==
  [][last'.op = "blur"
       => /\ currentRequestId # None => windowShown' = windowShown
          /\ (windowShown /\ ~windowShown')
               => (currentRequestId = None /\ ~isDragging /\ ~showSettings)]_vars

\* C26: when send_ai_request or get_api_key of a request rejects while a
\* newer request is current, currentRequestId, panelMode and errorMessage
\* stay as they are.
C26_StaleSendFailure ==
  [][(/\ last'.op \in {"send_ai_request:err", "get_api_key:err"}
      /\ currentRequestId # None
      /\ currentRequestId # Some(last'.rid))
       => UNCHANGED <<currentRequestId, panelMode, errorMessage>>]_vars

\* C27: currentRequestId is non-null only while panelMode is 'processing'.
C27_CurrentOnlyWhileProcessing ==
  currentRequestId # None => panelMode = "processing"

\* C28: after hidePanel, once the cancelAI it started has run with nothing
\* else called in between (or at once, when it started none), isVisible is
\* false, panelMode is 'idle', errorMessage is null and currentRequestId is
\* null.
C28_HiddenStable ==
  [][(\/ last'.op = "hidePanel" /\ currentRequestId = None
      \/ /\ last.op = "hidePanel"
         /\ last'.op = "cancel_ai_request:settled"
         /\ last.cur = Some(last'.rid))
       => /\ isVisible' = FALSE
          /\ panelMode' = "idle"
          /\ errorMessage' = None
          /\ currentRequestId' = None]_vars

\* C29: right after reset, the settlement of an apply_rule, read_clipboard,
\* scan_pii or cancel_ai_request started before it leaves panelMode 'idle'
\* and processedContent as it is.
C29_NothingAppliedAfterReset ==
  [][(/\ last.op = "reset"
      /\ last'.op \in {"apply_rule:ok", "apply_rule:err", "read_clipboard:ok",
                        "read_clipboard:err", "scan_pii:ok", "scan_pii:err",
                        "cancel_ai_request:settled"})
       => /\ panelMode' = "idle"
          /\ processedContent' = processedContent]_vars

\* C30: reset gives clipboardContent, processedContent, streamingContent,
\* actionChips, selectedChipIndex, privacyStatus, maskedMapping, errorMessage,
\* panelMode and currentRequestId their initial values and leaves config and
\* isVisible unchanged.
C30_ResetFrame ==
  [][(last'.op = "reset")
       => /\ clipboardContent' = None
          /\ processedContent' = ""
          /\ streamingContent' = ""
          /\ actionChips' = <<>>
          /\ selectedChipIndex' = 0
          /\ privacyStatus' = [type |-> "local"]
          /\ maskedMapping' = <<>>
          /\ errorMessage' = None
          /\ panelMode' = "idle"
          /\ currentRequestId' = None
          /\ UNCHANGED <<config, isVisible>>]_vars

\* C30 witness: reset ran with the panel visible, a configuration loaded and
\* a request current.
C30_Witness ==
  /\ last.op = "reset"
  /\ last.cur # None
  /\ isVisible
  /\ config # None
  /\ panelMode = "idle"

\* No clipboard content is held, or its text is empty.
ClipboardEmpty == clipboardContent = None \/ clipboardContent[1].text = ""

\* C31: processWithAI and processWithRule called while the clipboard text is
\* empty invoke no backend command, generate no request id and leave
\* panelMode, streamingContent, processedContent, errorMessage and
\* currentRequestId as they are.
C31_EmptyClipboardNoOp ==
  [][(last'.op \in {"processWithAI", "processWithRule"} /\ ClipboardEmpty)
       => /\ pending' = pending
          /\ idsUsed' = idsUsed
          /\ sendLog' = sendLog
          /\ UNCHANGED <<panelMode, streamingContent, processedContent,
                         errorMessage, currentRequestId>>]_vars

\* C31 witness: processWithAI was called on a clipboard content with an empty
\* text while an error was shown.
C31_Witness ==
  /\ last.op = "processWithAI"
  /\ clipboardContent = Some([text |-> ""])
  /\ errorMessage # None
  /\ pending = EmptyBag

\* C32: confirmPaste writes processedContent when it is not empty and the
\* clipboard text otherwise, and does nothing when both are empty; the panel
\* is hidden and the store reset when write_clipboard succeeded, and only
\* then; when write_clipboard fails the panel stays visible, processedContent
\* and clipboardContent stay as they are and errorMessage is set.
C32_PasteThenHide ==
  [][/\ last'.op = "confirmPaste"
          => \/ UNCHANGED storeVars
             \/ /\ UNCHANGED isVisible
                /\ \E written \in Pending("write_clipboard")' :
                     /\ pending' = pending (+) SetToBag({written})
                     /\ written.text =
                          IF processedContent # "" THEN processedContent
                          ELSE clipboardContent[1].text
     /\ last'.op = "write_clipboard:ok"
          => /\ ~isVisible' /\ ~windowShown'
             /\ panelMode' = "idle" /\ clipboardContent' = None
             /\ processedContent' = "" /\ errorMessage' = None
     /\ last'.op = "write_clipboard:err"
          => /\ UNCHANGED <<isVisible, windowShown, processedContent,
                            clipboardContent>>
             /\ errorMessage' # None]_vars

\* The number of pending invocations of a command.
Invocations(bag, cmd) ==
  BagCardinality([task \in {k \in BagToSet(bag) : k.cmd = cmd} |-> bag[task]])

\* handleSave has an API key to save.
KeyToSave == settings.formData.aiProvider = "OpenAI" /\ ~Blank(settings.apiKey)

\* C33: when set_config of handleSave resolves, no API key is to be saved
\* and a configuration was stored before, register_hotkey is invoked once,
\* with the hotkey of the form, if that hotkey differs from the hotkey of
\* the configuration stored before the save, and is not invoked if the
\* hotkey is the same.
C33_HotkeyReregistered ==
  [][(last'.op = "set_config:ok" /\ ~KeyToSave /\ config # None)
       => IF settings.formData.hotkey # config[1].hotkey
            THEN /\ Invocations(pending', "register_hotkey")
                      = Invocations(pending, "register_hotkey") + 1
                 /\ \E task \in Pending("register_hotkey")' :
                      /\ task.text = join(settings.formData.hotkey)
                      /\ CopiesIn(task, pending') = CopiesIn(task, pending) + 1
            ELSE Invocations(pending', "register_hotkey")
                   = Invocations(pending, "register_hotkey")]_vars

\* C34: when set_config of handleSave rejects, a save error is recorded,
\* neither set_api_key nor register_hotkey is invoked and close is not
\* emitted; handleSave emits close only after set_config resolved.
C34_FailedSaveKeepsSettingsOpen ==
  [][/\ last'.op = "set_config:err"
          => /\ "save" \in DOMAIN settings'.errors
             /\ Invocations(pending', "set_api_key") = Invocations(pending, "set_api_key")
             /\ Invocations(pending', "register_hotkey")
                  = Invocations(pending, "register_hotkey")
             /\ settings'.closes = settings.closes
             /\ showSettings' = showSettings
     /\ (last'.op # "handleCancel" /\ settings'.closes # settings.closes)
          => settings'.savedAsConfig]_vars

\* C35: with the settings open, Escape closes the settings and does nothing
\* else; otherwise, while the panel is processing, Escape cancels the current
\* request and does not hide the window; otherwise Escape hides the window;
\* no Escape both cancels a request and hides the window.
C35_EscapeHandling ==
  [][last'.op = "Escape"
       => /\ showSettings
               => /\ ~showSettings'
                  /\ UNCHANGED <<storeVars, windowShown>>
          /\ (~showSettings /\ panelMode = "processing")
               => /\ windowShown' = windowShown
                  /\ currentRequestId # None
                       => /\ currentRequestId[1] \in cancelLog'
                          /\ Invocations(pending', "cancel_ai_request")
                               = Invocations(pending, "cancel_ai_request") + 1
          /\ (~showSettings /\ panelMode # "processing")
               => /\ ~windowShown'
                  /\ UNCHANGED storeVars
          /\ ~(/\ pending' # pending
                /\ windowShown /\ ~windowShown')]_vars

\* The chip a number key selects: the key is 1, 2 or 3, the target of the
\* event is no input and no textarea, and there is a chip of that number.
SelectedChip ==
  LET number == IF keydown.key = <<"1">> THEN 1
                ELSE IF keydown.key = <<"2">> THEN 2
                ELSE IF keydown.key = <<"3">> THEN 3
                ELSE 0
  IN  IF /\ number >= 1
         /\ keydown.target \notin {"HTMLInputElement", "HTMLTextAreaElement"}
         /\ number <= Len(keydown.chips)
        THEN <<keydown.chips[number]>>
        ELSE <<>>

\* C36: a keydown of 1, 2 or 3 whose target is no input and no textarea
\* emits select with the chip of that number exactly when there is one; any
\* other key, a number beyond the chips and a keydown in an input or a
\* textarea emit nothing.
C36_NumberKeySelectsChip ==
  (keydown.handled /\ keydown.key # <<>>) => keydown.emitted = SelectedChip

\* C36 witness: the key 2 selected the second of three chips outside an
\* input.
C36_Witness ==
  /\ keydown.handled
  /\ keydown.key = <<"2">>
  /\ keydown.target = "HTMLDivElement"
  /\ keydown.chips = <<"c1", "c2", "c1">>
  /\ keydown.emitted = <<"c2">>

====
